---- MODULE Spec2Model ----
(***************************************************************************)
(* autosmp (arch/arm/kernel/autosmp.c): the hotplug control loop           *)
(* asmp_work_fn, the early-suspend / late-resume handlers, the             *)
(* asmp_enabled module parameter and the sysfs parameter stores, run as    *)
(* three concurrent contexts (the work queue worker, the early-suspend     *)
(* thread, a sysfs writer) over the shared cpu_online_mask and asmp_param. *)
(***************************************************************************)
EXTENDS Integers, FiniteSets, Sequences, TLC

(* ------------------------------ bounds --------------------------------- *)
\* number of present cpus (cpu_present_mask = 0 .. NrPresent-1)
NrPresent == 3
\* cap of the two history counters that count consecutive observations
MaxRun == 2

(* ------------------------- program constants --------------------------- *)
ASMP_STARTDELAY == 20000
ASMP_WORK_DELAY == 100
ASMP_MIN_CPUS == 1
ASMP_CPUFREQ_UP == 90
ASMP_CPUFREQ_DOWN == 60
ASMP_CYCLE_UP == 1
ASMP_CYCLE_DOWN == 1
\* UINT_MAX, the start value of slow_rate. The model checker's integers end at
\* 2^31 - 1, which stands for it: rates are in MHz and every product the tick
\* forms stays far below it, so no unsigned wrap-around occurs in the model.
UINT_MAX == 2147483647
\* timer ticks per second of the kernel build
HZ == 100

\* CONFIG_NR_CPUS: the build is sized for the present cpus
CONFIG_NR_CPUS == NrPresent
nr_cpu_ids == CONFIG_NR_CPUS
cpu_present_mask == 0 .. (NrPresent - 1)

\* msecs_to_jiffies: round the milliseconds up to whole timer ticks
msecs_to_jiffies(m) == (m * HZ + 999) \div 1000

(* --------------------------- input domains ----------------------------- *)
\* rates cpufreq_quick_get can report for an online cpu
RateVals == {500, 950}
\* rates cpufreq_quick_get_max can report for cpu 0
MaxRateVals == {1000}
\* values a sysfs store writes, per parameter
StoreVals ==
  [ delay        |-> {ASMP_WORK_DELAY},
    max_cpus     |-> 1 .. NrPresent,
    min_cpus     |-> 1 .. 2,
    cpufreq_up   |-> {ASMP_CPUFREQ_UP},
    cpufreq_down |-> {ASMP_CPUFREQ_DOWN},
    cycle_up     |-> 1 .. 2,
    cycle_down   |-> 1 .. 2 ]
ParamNames == DOMAIN StoreVals
\* what the never-assigned local delay_jif of a tick can hold
GarbageJiffies == {0, msecs_to_jiffies(ASMP_WORK_DELAY)}

Min(a, b) == IF a <= b THEN a ELSE b

(* ------------------------------- state --------------------------------- *)
VARIABLES
  asmp_enabled,     \* the module parameter asmp_enabled
  asmp_param,       \* struct asmp_param_struct
  cpu_online_mask,  \* set of online cpus
  work_pending,     \* asmp_work is queued (timer armed or on the queue)
  work_timer,       \* jiffies the pending asmp_work was armed with
  work_canceling,   \* contexts inside cancel_delayed_work_sync(&asmp_work)
  wk,               \* the worker running asmp_work_fn: position and locals
  pm,               \* the early-suspend thread: position and loop cursor
  sysfs,            \* the writer of asmp_enabled: position and loop cursor
  suspended,        \* early-suspend state of the system (suspend signalled)
  hotplug_fault,    \* the hotplug primitive currently refuses every request
  up_run,           \* history: consecutive ticks that observed scale-up
  down_run,         \* history: consecutive ticks that observed scale-down
  susp_begun        \* history: suspend handler began while enabled, no resume yet

vars == << asmp_enabled, asmp_param, cpu_online_mask, work_pending, work_timer,
           work_canceling, wk, pm, sysfs, suspended, hotplug_fault,
           up_run, down_run, susp_begun >>

(* ------------------------ external primitives -------------------------- *)
num_online_cpus(mask) == Cardinality(mask)

\* cpu_up(cpu): -EINVAL for a cpu that is online or not present, otherwise the
\* cpu comes online unless the primitive fails
cpu_up(mask, cpu, fault) ==
  IF fault \/ cpu \in mask \/ cpu \notin cpu_present_mask
  THEN mask
  ELSE mask \cup {cpu}

\* cpu_down(cpu): -EINVAL for an offline cpu, -EBUSY for the last online cpu,
\* otherwise the cpu goes offline unless the primitive fails
cpu_down(mask, cpu, fault) ==
  IF fault \/ cpu \notin mask \/ num_online_cpus(mask) = 1
  THEN mask
  ELSE mask \ {cpu}

\* cpumask_next_zero(n, mask): the lowest cpu > n not in mask, nr_cpu_ids if none
cpumask_next_zero(n, mask) ==
  LET zeros == { c \in (n + 1) .. (nr_cpu_ids - 1) : c \notin mask }
  IN  IF zeros = {} THEN nr_cpu_ids
      ELSE CHOOSE c \in zeros : \A d \in zeros : c <= d

\* queue_delayed_work: arms the work unless it is already pending or a
\* canceller holds it; TRUE when it armed
CanQueue == ~work_pending /\ work_canceling = {}

(* --------------------------- asmp_work_fn ------------------------------ *)
WkIdle == [ pc |-> "idle", nr_cpu_online |-> 0, slow_cpu |-> 0, slow_rate |-> 0,
            fast_rate |-> 0, max_rate |-> 0, up_rate |-> 0, down_rate |-> 0,
            cycle |-> 0,
            delay_jif |-> 0, did |-> "none", entry_ok |-> FALSE,
            rates |-> [ c \in cpu_present_mask |-> 0 ], entry_delay |-> 0,
            failed |-> FALSE ]
\* did, entry_ok, rates, entry_delay and failed are history: the hotplug call
\* the tick made, whether the system was not suspended when the tick began,
\* the rates the tick sampled (0 for an offline cpu), the delay parameter as
\* it was when the tick began, and whether the hotplug call changed nothing.

\* the loop body without the test of line 88 that skips cpu 0
ScanOne_NoPrimarySkip(cpu, rate, acc) ==
  IF rate <= acc.slow_rate
  THEN [ acc EXCEPT !.slow_cpu = cpu, !.slow_rate = rate ]
  ELSE IF rate > acc.fast_rate
       THEN [ acc EXCEPT !.fast_rate = rate ]
       ELSE acc

\* the body of the for_each_online_cpu loop for one cpu
ScanOne(cpu, rate, acc) ==
  IF cpu # 0
  THEN IF rate <= acc.slow_rate
       THEN [ acc EXCEPT !.slow_cpu = cpu, !.slow_rate = rate ]
       ELSE IF rate > acc.fast_rate
            THEN [ acc EXCEPT !.fast_rate = rate ]
            ELSE acc
  ELSE acc

\* for_each_online_cpu(cpu), in increasing cpu order, from cpu on
RECURSIVE ScanCpus(_, _, _, _)
ScanCpus(cpu, mask, rates, acc) ==
  IF cpu >= nr_cpu_ids THEN acc
  ELSE IF cpu \in mask
       THEN ScanCpus(cpu + 1, mask, rates, ScanOne(cpu, rates[cpu], acc))
       ELSE ScanCpus(cpu + 1, mask, rates, acc)

\* lines 83-98: slow_cpu, slow_rate, fast_rate of one sampling
SampleRates(mask, rates) ==
  LET cpu0_rate == rates[0]
      acc == ScanCpus(0, mask, rates,
                      [ slow_cpu |-> 0, slow_rate |-> UINT_MAX,
                        fast_rate |-> cpu0_rate ])
  IN  IF cpu0_rate < acc.slow_rate
      THEN [ acc EXCEPT !.slow_rate = cpu0_rate ]
      ELSE acc

\* lines 80-81: threshold * max_rate / 100, unsigned division
Limit(pct, max_rate) == (pct * max_rate) \div 100

\* the conditions of lines 101 and 109
UpCond(l) == l.slow_rate > l.up_rate
DownCond(l) == ~UpCond(l) /\ l.slow_cpu # 0 /\ l.fast_rate < l.down_rate

\* the hysteresis tests of lines 103 and 111
CycleUpReached_Skipped(l, p) == TRUE
CycleUpReached(l, p) == l.cycle >= p.cycle_up
CycleDownReached(l, p) == l.cycle >= p.cycle_down

\* lines 100-115 with the floor test of line 110 off by one
Decide_FloorOffByOne(l, p) ==
  IF UpCond(l)
  THEN IF l.nr_cpu_online < p.max_cpus /\ CycleUpReached(l, p)
       THEN "up" ELSE "none"
  ELSE IF DownCond(l)
       THEN IF l.nr_cpu_online >= p.min_cpus /\ CycleDownReached(l, p)
            THEN "down" ELSE "none"
       ELSE "none"

\* lines 100-115: which hotplug call the tick makes
Decide(l, p) ==
  IF UpCond(l)
  THEN IF l.nr_cpu_online < p.max_cpus /\ CycleUpReached(l, p)
       THEN "up" ELSE "none"
  ELSE IF DownCond(l)
       THEN IF l.nr_cpu_online > p.min_cpus /\ CycleDownReached(l, p)
            THEN "down" ELSE "none"
       ELSE "none"

Bump(n) == Min(n + 1, MaxRun)

\* The armed work fires and asmp_work_fn runs lines 66-98: with asmp_enabled
\* set it reads the delay and samples the rates under get_online_cpus();
\* otherwise it skips to line 118 with delay_jif never assigned.  The work
\* queue is taken to run one instance of asmp_work at a time.  maxrates are
\* the values cpufreq_quick_get_max can return.
TickSampleWith(maxrates) ==
  /\ work_pending
  /\ wk.pc = "idle"
  /\ work_pending' = FALSE
  /\ IF asmp_enabled
     THEN \E rates \in [cpu_online_mask -> RateVals], max_rate \in maxrates :
            LET s == SampleRates(cpu_online_mask, rates)
                l == [ pc |-> "decide",
                       nr_cpu_online |-> num_online_cpus(cpu_online_mask),
                       slow_cpu |-> s.slow_cpu,
                       slow_rate |-> s.slow_rate,
                       fast_rate |-> s.fast_rate,
                       max_rate |-> max_rate,
                       up_rate |-> Limit(asmp_param.cpufreq_up, max_rate),
                       down_rate |-> Limit(asmp_param.cpufreq_down, max_rate),
                       cycle |-> 1,
                       delay_jif |-> msecs_to_jiffies(asmp_param.delay),
                       did |-> "none",
                       entry_ok |-> ~suspended,
                       rates |-> [ c \in cpu_present_mask |->
                                     IF c \in cpu_online_mask THEN rates[c] ELSE 0 ],
                       entry_delay |-> asmp_param.delay,
                       failed |-> FALSE ]
            IN  /\ wk' = l
                /\ up_run' = IF UpCond(l) THEN Bump(up_run) ELSE 0
                /\ down_run' = IF DownCond(l) THEN Bump(down_run) ELSE 0
     ELSE \E j \in GarbageJiffies :
            /\ wk' = [ WkIdle EXCEPT !.pc = "rearm", !.delay_jif = j ]
            /\ up_run' = 0
            /\ down_run' = 0
  /\ UNCHANGED << asmp_enabled, asmp_param, cpu_online_mask, work_timer,
                  work_canceling, pm, sysfs, suspended, hotplug_fault, susp_begun >>

TickSample == TickSampleWith(MaxRateVals)

\* line 104: the cpu a scale-up passes to cpu_up
UpTarget(mask) == cpumask_next_zero(0, mask)

\* lines 100-115: the online mask after the tick's hotplug call d
Hotplug(d, mask, l, fault) ==
  IF d = "up"
  THEN cpu_up(mask, UpTarget(mask), fault)
  ELSE IF d = "down"
       THEN cpu_down(mask, l.slow_cpu, fault)
       ELSE mask

\* lines 100-115: the decision and its single hotplug call
TickDecide ==
  /\ wk.pc = "decide"
  /\ LET d == Decide(wk, asmp_param)
         after == Hotplug(d, cpu_online_mask, wk, hotplug_fault)
     IN  /\ cpu_online_mask' = after
         /\ wk' = [ WkIdle EXCEPT !.pc = "rearm", !.delay_jif = wk.delay_jif,
                                  !.did = d, !.entry_ok = wk.entry_ok,
                                  !.entry_delay = wk.entry_delay,
                                  !.failed = (d # "none" /\ after = cpu_online_mask) ]
  /\ UNCHANGED << asmp_enabled, asmp_param, work_pending, work_timer,
                  work_canceling, pm, sysfs, suspended, hotplug_fault,
                  up_run, down_run, susp_begun >>

\* line 118 as it would be if a failed hotplug call ended the loop
TickRearm_StopsOnFailure ==
  /\ wk.pc = "rearm"
  /\ work_pending' = IF CanQueue /\ ~wk.failed THEN TRUE ELSE work_pending
  /\ work_timer' = IF CanQueue /\ ~wk.failed THEN wk.delay_jif ELSE work_timer
  /\ wk' = WkIdle
  /\ UNCHANGED << asmp_enabled, asmp_param, cpu_online_mask, work_canceling,
                  pm, sysfs, suspended, hotplug_fault, up_run, down_run,
                  susp_begun >>

\* line 118: queue_delayed_work(asmp_wq, &asmp_work, delay_jif)
TickRearm ==
  /\ wk.pc = "rearm"
  /\ work_pending' = IF CanQueue THEN TRUE ELSE work_pending
  /\ work_timer' = IF CanQueue THEN wk.delay_jif ELSE work_timer
  /\ wk' = WkIdle
  /\ UNCHANGED << asmp_enabled, asmp_param, cpu_online_mask, work_canceling,
                  pm, sysfs, suspended, hotplug_fault, up_run, down_run,
                  susp_begun >>

(* ---------------------- cancel_delayed_work_sync ----------------------- *)
\* first half: take the pending work off the timer and hold it
GrabPending(who) ==
  /\ work_pending' = FALSE
  /\ work_canceling' = work_canceling \cup {who}

\* second half: the running work function, if any, has returned
FlushDone == wk.pc = "idle"

(* ------------------------- asmp_early_suspend -------------------------- *)
PmIdle == [ pc |-> "idle", cpu |-> 0 ]

\* one iteration of the loop of lines 129-133
SuspendStep_AnyCpu(mask, cpu, p, fault) ==
  IF cpu \in mask /\ num_online_cpus(mask) > p.min_cpus
  THEN cpu_down(mask, cpu, fault)
  ELSE mask

SuspendStep(mask, cpu, p, fault) ==
  IF cpu # 0 /\ cpu \in mask /\ num_online_cpus(mask) > p.min_cpus
  THEN cpu_down(mask, cpu, fault)
  ELSE mask

\* the suspend signal arrives: lines 125-126
EarlySuspendStart ==
  /\ pm.pc = "idle"
  /\ ~suspended
  /\ suspended' = TRUE
  /\ pm' = IF asmp_enabled THEN [ pc |-> "susp_loop", cpu |-> 0 ] ELSE PmIdle
  /\ susp_begun' = asmp_enabled
  /\ UNCHANGED << asmp_enabled, asmp_param, cpu_online_mask, work_pending,
                  work_timer, work_canceling, wk, sysfs, hotplug_fault,
                  up_run, down_run >>

EarlySuspendLoop ==
  /\ pm.pc = "susp_loop"
  /\ cpu_online_mask' = SuspendStep(cpu_online_mask, pm.cpu, asmp_param, hotplug_fault)
  /\ pm' = IF pm.cpu + 1 < NrPresent
           THEN [ pm EXCEPT !.cpu = pm.cpu + 1 ]
           ELSE [ pc |-> "susp_cancel", cpu |-> 0 ]
  /\ UNCHANGED << asmp_enabled, asmp_param, work_pending, work_timer,
                  work_canceling, wk, sysfs, suspended, hotplug_fault,
                  up_run, down_run, susp_begun >>

\* line 136
EarlySuspendCancel ==
  /\ pm.pc = "susp_cancel"
  /\ GrabPending("pm")
  /\ pm' = [ pm EXCEPT !.pc = "susp_wait" ]
  /\ UNCHANGED << asmp_enabled, asmp_param, cpu_online_mask, work_timer, wk,
                  sysfs, suspended, hotplug_fault, up_run, down_run, susp_begun >>

EarlySuspendWait ==
  /\ pm.pc = "susp_wait"
  /\ FlushDone
  /\ work_canceling' = work_canceling \ {"pm"}
  /\ pm' = PmIdle
  /\ UNCHANGED << asmp_enabled, asmp_param, cpu_online_mask, work_pending,
                  work_timer, wk, sysfs, suspended, hotplug_fault,
                  up_run, down_run, susp_begun >>

(* --------------------------- asmp_late_resume -------------------------- *)
\* one iteration of the loops of lines 147-151 and 177-181
OnlineStep(mask, cpu, p, fault) ==
  IF cpu \notin mask /\ num_online_cpus(mask) < p.max_cpus
  THEN cpu_up(mask, cpu, fault)
  ELSE mask

\* the resume signal arrives: lines 143-144
LateResumeStart ==
  /\ pm.pc = "idle"
  /\ suspended
  /\ suspended' = FALSE
  /\ susp_begun' = FALSE
  /\ pm' = IF asmp_enabled THEN [ pc |-> "res_loop", cpu |-> 0 ] ELSE PmIdle
  /\ UNCHANGED << asmp_enabled, asmp_param, cpu_online_mask, work_pending,
                  work_timer, work_canceling, wk, sysfs, hotplug_fault,
                  up_run, down_run >>

LateResumeLoop ==
  /\ pm.pc = "res_loop"
  /\ cpu_online_mask' = OnlineStep(cpu_online_mask, pm.cpu, asmp_param, hotplug_fault)
  /\ pm' = IF pm.cpu + 1 < NrPresent
           THEN [ pm EXCEPT !.cpu = pm.cpu + 1 ]
           ELSE [ pc |-> "res_queue", cpu |-> 0 ]
  /\ UNCHANGED << asmp_enabled, asmp_param, work_pending, work_timer,
                  work_canceling, wk, sysfs, suspended, hotplug_fault,
                  up_run, down_run, susp_begun >>

\* lines 154-155
LateResumeQueue ==
  /\ pm.pc = "res_queue"
  /\ work_pending' = IF CanQueue THEN TRUE ELSE work_pending
  /\ work_timer' = IF CanQueue THEN msecs_to_jiffies(asmp_param.delay) ELSE work_timer
  /\ pm' = PmIdle
  /\ UNCHANGED << asmp_enabled, asmp_param, cpu_online_mask, work_canceling,
                  wk, sysfs, suspended, hotplug_fault, up_run, down_run,
                  susp_begun >>

(* --------------------------- set_asmp_enabled -------------------------- *)
\* entry_max is history: max_cpus as it was when a disable was entered
SysfsIdle == [ pc |-> "idle", cpu |-> 0, entry_max |-> 0 ]

\* line 169: param_set_bool stores the written value, then line 171 branches
SetEnabledStart ==
  /\ sysfs.pc = "idle"
  /\ \E val \in BOOLEAN :
       /\ asmp_enabled' = val
       /\ sysfs' = [ pc |-> IF val THEN "en_queue" ELSE "dis_cancel", cpu |-> 0,
                     entry_max |-> IF val THEN 0 ELSE asmp_param.max_cpus ]
  /\ UNCHANGED << asmp_param, cpu_online_mask, work_pending, work_timer,
                  work_canceling, wk, pm, suspended, hotplug_fault,
                  up_run, down_run, susp_begun >>

\* lines 172-174
SetEnabledQueue ==
  /\ sysfs.pc = "en_queue"
  /\ work_pending' = IF CanQueue THEN TRUE ELSE work_pending
  /\ work_timer' = IF CanQueue THEN msecs_to_jiffies(asmp_param.delay) ELSE work_timer
  /\ sysfs' = SysfsIdle
  /\ UNCHANGED << asmp_enabled, asmp_param, cpu_online_mask, work_canceling,
                  wk, pm, suspended, hotplug_fault, up_run, down_run, susp_begun >>

\* line 176
SetEnabledCancel ==
  /\ sysfs.pc = "dis_cancel"
  /\ GrabPending("sysfs")
  /\ sysfs' = [ sysfs EXCEPT !.pc = "dis_wait" ]
  /\ UNCHANGED << asmp_enabled, asmp_param, cpu_online_mask, work_timer, wk,
                  pm, suspended, hotplug_fault, up_run, down_run, susp_begun >>

SetEnabledWait ==
  /\ sysfs.pc = "dis_wait"
  /\ FlushDone
  /\ work_canceling' = work_canceling \ {"sysfs"}
  /\ sysfs' = [ sysfs EXCEPT !.pc = "dis_loop", !.cpu = 0 ]
  /\ UNCHANGED << asmp_enabled, asmp_param, cpu_online_mask, work_pending,
                  work_timer, wk, pm, suspended, hotplug_fault,
                  up_run, down_run, susp_begun >>

\* lines 177-181
SetEnabledLoop ==
  /\ sysfs.pc = "dis_loop"
  /\ cpu_online_mask' = OnlineStep(cpu_online_mask, sysfs.cpu, asmp_param, hotplug_fault)
  /\ sysfs' = IF sysfs.cpu + 1 < NrPresent
              THEN [ sysfs EXCEPT !.cpu = sysfs.cpu + 1 ]
              ELSE [ sysfs EXCEPT !.pc = "dis_ret", !.cpu = 0 ]
  /\ UNCHANGED << asmp_enabled, asmp_param, work_pending, work_timer,
                  work_canceling, wk, pm, suspended, hotplug_fault,
                  up_run, down_run, susp_begun >>

\* lines 182-185: the disable returns to its caller
SetEnabledReturn ==
  /\ sysfs.pc = "dis_ret"
  /\ sysfs' = SysfsIdle
  /\ UNCHANGED << asmp_enabled, asmp_param, cpu_online_mask, work_pending,
                  work_timer, work_canceling, wk, pm, suspended, hotplug_fault,
                  up_run, down_run, susp_begun >>

(* ------------------------------ store_one ------------------------------ *)
\* lines 221-240: a numeric write is stored as it is
store_one(vals) ==
  /\ \E object \in ParamNames : \E input \in vals[object] :
       /\ asmp_param[object] # input
       /\ asmp_param' = [ asmp_param EXCEPT ![object] = input ]
  /\ UNCHANGED << asmp_enabled, cpu_online_mask, work_pending, work_timer,
                  work_canceling, wk, pm, sysfs, suspended, hotplug_fault,
                  up_run, down_run, susp_begun >>

(* ----------------------------- environment ----------------------------- *)
\* the hotplug primitive starts or stops failing
HotplugFaultToggle ==
  /\ hotplug_fault' = ~hotplug_fault
  /\ UNCHANGED << asmp_enabled, asmp_param, cpu_online_mask, work_pending,
                  work_timer, work_canceling, wk, pm, sysfs, suspended,
                  up_run, down_run, susp_begun >>

(* --------------------------- specification ----------------------------- *)
\* asmp_init with asmp_enabled = 1: the first tick is armed with the start
\* delay; every present cpu is online after boot
Init ==
  /\ asmp_enabled = TRUE
  /\ asmp_param = [ delay |-> ASMP_WORK_DELAY, max_cpus |-> CONFIG_NR_CPUS,
                    min_cpus |-> ASMP_MIN_CPUS, cpufreq_up |-> ASMP_CPUFREQ_UP,
                    cpufreq_down |-> ASMP_CPUFREQ_DOWN,
                    cycle_up |-> ASMP_CYCLE_UP, cycle_down |-> ASMP_CYCLE_DOWN ]
  /\ cpu_online_mask = cpu_present_mask
  /\ work_pending = TRUE
  /\ work_timer = msecs_to_jiffies(ASMP_STARTDELAY)
  /\ work_canceling = {}
  /\ wk = WkIdle
  /\ pm = PmIdle
  /\ sysfs = SysfsIdle
  /\ suspended = FALSE
  /\ hotplug_fault = FALSE
  /\ up_run = 0
  /\ down_run = 0
  /\ susp_begun = FALSE

Next ==
  \/ TickSample
  \/ TickDecide
  \/ TickRearm
  \/ EarlySuspendStart
  \/ EarlySuspendLoop
  \/ EarlySuspendCancel
  \/ EarlySuspendWait
  \/ LateResumeStart
  \/ LateResumeLoop
  \/ LateResumeQueue
  \/ SetEnabledStart
  \/ SetEnabledQueue
  \/ SetEnabledCancel
  \/ SetEnabledWait
  \/ SetEnabledLoop
  \/ SetEnabledReturn
  \/ store_one(StoreVals)
  \/ HotplugFaultToggle

Spec == Init /\ [][Next]_vars

(* ------------------- resume issued twice in a row ---------------------- *)
\* lines 147-151 as a whole: for_each_present_cpu from cpu on
RECURSIVE OnlineLoop_FirstOnly(_, _, _, _)
OnlineLoop_FirstOnly(cpu, mask, p, fault) ==
  IF cpu >= NrPresent THEN mask
  ELSE IF OnlineStep(mask, cpu, p, fault) # mask
       THEN OnlineStep(mask, cpu, p, fault)
       ELSE OnlineLoop_FirstOnly(cpu + 1, mask, p, fault)

RECURSIVE OnlineLoop(_, _, _, _)
OnlineLoop(cpu, mask, p, fault) ==
  IF cpu >= NrPresent THEN mask
  ELSE OnlineLoop(cpu + 1, OnlineStep(mask, cpu, p, fault), p, fault)

\* asmp_late_resume run from entry to return with nothing in between; the
\* position of pm afterwards records how many calls have returned
LateResumeCall(returned) ==
  /\ cpu_online_mask' =
       IF asmp_enabled
       THEN OnlineLoop(0, cpu_online_mask, asmp_param, hotplug_fault)
       ELSE cpu_online_mask
  /\ work_pending' = IF asmp_enabled /\ CanQueue THEN TRUE ELSE work_pending
  /\ work_timer' = IF asmp_enabled /\ CanQueue
                   THEN msecs_to_jiffies(asmp_param.delay) ELSE work_timer
  /\ suspended' = FALSE
  /\ susp_begun' = FALSE
  /\ pm' = [ pc |-> returned, cpu |-> 0 ]
  /\ UNCHANGED << asmp_enabled, asmp_param, work_canceling, wk, sysfs,
                  hotplug_fault, up_run, down_run >>

ResumeOnce == pm.pc = "idle" /\ suspended /\ LateResumeCall("resumed")
ResumeAgain == pm.pc = "resumed" /\ LateResumeCall("resumed_again")

\* every parameter setting the stores can produce
ParamSpace ==
  { p \in [ ParamNames -> UNION { StoreVals[n] : n \in ParamNames } ] :
      \A n \in ParamNames : p[n] \in StoreVals[n] }

\* the states a suspended system can be in when the resume signal arrives
InitResume ==
  /\ asmp_enabled \in BOOLEAN
  /\ asmp_param \in ParamSpace
  /\ cpu_online_mask \in { m \in SUBSET cpu_present_mask : 0 \in m }
  /\ work_pending \in BOOLEAN
  /\ work_timer = msecs_to_jiffies(ASMP_WORK_DELAY)
  /\ work_canceling = {}
  /\ wk = WkIdle
  /\ pm = PmIdle
  /\ sysfs = SysfsIdle
  /\ suspended = TRUE
  /\ hotplug_fault \in BOOLEAN
  /\ up_run = 0
  /\ down_run = 0
  /\ susp_begun = asmp_enabled

NextResume == ResumeOnce \/ ResumeAgain

SpecResume == InitResume /\ [][NextResume]_vars

(* ------------------------ the control loop alone ----------------------- *)
\* cpufreq_quick_get_max returns 0 when it finds no policy for the cpu
MaxRateValsFault == MaxRateVals \cup {0}
\* stores that include a second delay, a max_cpus above the present cpus and
\* a min_cpus of 0
StoreValsWide ==
  [ StoreVals EXCEPT !.delay = {ASMP_WORK_DELAY, 250},
                     !.max_cpus = 1 .. (NrPresent + 1),
                     !.min_cpus = 0 .. 2 ]

TickSampleAny == TickSampleWith(MaxRateValsFault)
StoreAny == store_one(StoreValsWide)

\* the ticks, the parameter stores and the hotplug faults, with the
\* controller enabled and the system awake throughout
NextTick ==
  \/ TickSampleAny
  \/ TickDecide
  \/ TickRearm
  \/ StoreAny
  \/ HotplugFaultToggle

SpecTick == Init /\ [][NextTick]_vars

(* ------------------------------ claims --------------------------------- *)
NrOnline == num_online_cpus(cpu_online_mask)
Quiet == pm.pc = "idle" /\ sysfs.pc = "idle"
TickDecides == wk.pc = "decide" /\ wk'.pc = "rearm"

\* C1: when a tick has made its decision and hotplug call, and the controller
\* was enabled and not suspended when the tick began and is so now, then
\* min_cpus <= number of online cpus <= max_cpus.
C1_BoundsAfterTick ==
  [][ (TickDecides /\ wk.entry_ok /\ asmp_enabled /\ ~suspended)
      => /\ asmp_param.min_cpus <= Cardinality(cpu_online_mask')
         /\ Cardinality(cpu_online_mask') <= asmp_param.max_cpus ]_vars

\* C2: the cycle_up-th tick of a run of ticks that observed the scale-up
\* condition, with fewer than max_cpus cpus online and the controller enabled,
\* brings exactly one cpu online.
C2_CycleUpthTickOnlines ==
  [][ ( /\ TickDecides
        /\ asmp_enabled /\ Quiet /\ ~hotplug_fault
        /\ UpCond(wk)
        /\ asmp_param.cycle_up >= 1
        /\ up_run = asmp_param.cycle_up
        /\ wk.nr_cpu_online = NrOnline
        /\ NrOnline < asmp_param.max_cpus )
      => Cardinality(cpu_online_mask') = NrOnline + 1 ]_vars

\* C3: a tick calls cpu_up only as at least the cycle_up-th tick of an unbroken
\* run of ticks that observed the scale-up condition, and cpu_down only as at
\* least the cycle_down-th tick of an unbroken run that observed scale-down.
C3_NoHotplugBeforeCycle ==
  [][ TickDecides
      => /\ (wk'.did = "up" => up_run >= asmp_param.cycle_up)
         /\ (wk'.did = "down" => down_run >= asmp_param.cycle_down) ]_vars

\* a tick has just brought a cpu online after a run of saturated ticks
C3_Witness ==
  /\ wk.pc = "rearm" /\ wk.did = "up"
  /\ up_run >= 1
  /\ NrOnline > 1

\* C4: the cycle_down-th tick of a run of ticks that observed the scale-down
\* condition, with more than min_cpus cpus online, takes slow_cpu offline
\* (with cycle_down = 2: nothing on the first tick, the offlining on the second).
C4_CycleDownthTickOfflines ==
  [][ ( /\ TickDecides
        /\ asmp_enabled /\ Quiet /\ ~hotplug_fault
        /\ DownCond(wk)
        /\ asmp_param.cycle_down >= 1
        /\ down_run = asmp_param.cycle_down
        /\ wk.nr_cpu_online = NrOnline
        /\ wk.slow_cpu \in cpu_online_mask
        /\ NrOnline > asmp_param.min_cpus )
      => cpu_online_mask' = cpu_online_mask \ {wk.slow_cpu} ]_vars

\* C5: when asmp_early_suspend, entered with the controller enabled, returns,
\* cpu 0 is the only online cpu, whatever min_cpus is.
C5_SuspendLeavesOnlyCpu0 ==
  [][ (pm.pc = "susp_wait" /\ pm'.pc = "idle" /\ ~hotplug_fault)
      => cpu_online_mask' = {0} ]_vars

\* C6: after the suspend handler has begun with the controller enabled, and
\* before the next resume, no tick calls cpu_up or cpu_down.
C6_NoTickHotplugAfterSuspendBegan ==
  [][ (susp_begun /\ TickDecides) => wk'.did = "none" ]_vars

\* C7: when set_asmp_enabled(false) returns, the number of online cpus is
\* min(max_cpus, number of present cpus) (stated for a call during which
\* max_cpus is what it was on entry).
C7_DisableRestoresCount ==
  (sysfs.pc = "dis_ret" /\ pm.pc = "idle" /\ ~hotplug_fault
     /\ asmp_param.max_cpus = sysfs.entry_max)
    => NrOnline = Min(asmp_param.max_cpus, NrPresent)

\* C8: from the return of set_asmp_enabled(false) to the next
\* set_asmp_enabled(true), no tick is pending or running.
C8_NoTickAfterDisable ==
  (~asmp_enabled /\ sysfs.pc = "idle") => (~work_pending /\ wk.pc = "idle")

\* C9: cpu 0 is online in every reachable state.
C9_PrimaryOnline == 0 \in cpu_online_mask

\* the suspend handler has taken every sibling offline and returned
C9_Witness ==
  /\ suspended /\ susp_begun /\ pm.pc = "idle"
  /\ cpu_online_mask = {0}

\* C10: a second resume that follows the first with nothing in between leaves
\* the set of online cpus and the pending state of the tick as the first left
\* them.
C10_ResumeIdempotent ==
  [][ pm.pc = "resumed"
      => (cpu_online_mask' = cpu_online_mask /\ work_pending' = work_pending) ]_vars

\* both calls of an enabled controller have returned, with the tick armed and
\* max_cpus cpus online
C10_Witness ==
  /\ pm.pc = "resumed_again"
  /\ asmp_enabled /\ work_pending
  /\ NrOnline = asmp_param.max_cpus /\ NrOnline > 1

\* C11: a tick whose read of cpu 0's maximum rate failed (returned 0) brings
\* no cpu online and takes none offline, whatever rates it sampled.
C11_NoHotplugOnMaxRateFault ==
  [][ (TickDecides /\ wk.max_rate = 0)
      => cpu_online_mask' = cpu_online_mask ]_vars

\* C12: the stored parameters satisfy 1 <= min_cpus <= max_cpus <= number of
\* present cpus in every reachable state (a write that would break this is
\* rejected and the prior value kept).
C12_StoredParamsInRange ==
  /\ 1 <= asmp_param.min_cpus
  /\ asmp_param.min_cpus <= asmp_param.max_cpus
  /\ asmp_param.max_cpus <= NrPresent

\* C13: the next tick is armed only after the body of the current tick has
\* completed: while a tick is between its sampling and its re-arming, no
\* further tick is pending.
C13_ArmedOnlyAfterTickBody ==
  wk.pc = "decide" => ~work_pending

\* C14: a tick that ran its body re-arms the next tick with the value the
\* delay parameter has at the end of the tick, so a write to delay made during
\* the body is the one used.
C14_RearmUsesDelayAtEnd ==
  [][ (wk.pc = "rearm" /\ wk'.pc = "idle" /\ wk.entry_delay # 0 /\ CanQueue)
      => work_timer' = msecs_to_jiffies(asmp_param.delay) ]_vars

\* C15: a tick that finds no more than min_cpus cpus online takes no cpu
\* offline, however long the run of ticks that observed the scale-down
\* condition.
C15_NoOfflineAtFloor ==
  [][ (TickDecides /\ wk.nr_cpu_online = NrOnline
         /\ NrOnline <= asmp_param.min_cpus)
      => (wk'.did # "down" /\ cpu_online_mask \subseteq cpu_online_mask') ]_vars

\* a second idle tick in a row has just left min_cpus = 2 cpus online, with
\* cycle_down = 1
C15_Witness ==
  /\ wk.pc = "rearm" /\ wk.did = "none"
  /\ down_run >= 2
  /\ asmp_param.cycle_down = 1
  /\ NrOnline = asmp_param.min_cpus /\ NrOnline = 2

\* the cpus a running tick sampled, and the non-primary ones among them
SampledCpus == { c \in cpu_present_mask : wk.rates[c] # 0 }
SampledSiblings == SampledCpus \ {0}

\* C16: fast_rate is the highest rate of the non-primary online cpus, so a
\* tick takes a cpu offline only when every non-primary online cpu it sampled
\* is below down_rate.
C16_OfflineOnlyWhenAllSiblingsIdle ==
  [][ (TickDecides /\ wk'.did = "down")
      => \A c \in SampledSiblings : wk.rates[c] < wk.down_rate ]_vars

\* C17: slow_rate is the lowest rate over all sampled cpus, cpu 0 included,
\* and slow_cpu, the cpu a scale-down passes to cpu_down, is a sampled
\* non-primary cpu whose rate is the lowest among the non-primary ones.
C17_SlowRateAndSlowCpu ==
  wk.pc = "decide"
    => /\ \E c \in SampledCpus : wk.slow_rate = wk.rates[c]
       /\ \A c \in SampledCpus : wk.slow_rate <= wk.rates[c]
       /\ SampledSiblings # {}
            => /\ wk.slow_cpu \in SampledSiblings
               /\ \A c \in SampledSiblings : wk.rates[wk.slow_cpu] <= wk.rates[c]
       /\ Decide(wk, asmp_param) = "down" => wk.slow_cpu \in SampledSiblings

\* a tick is about to take cpu 2 offline, the slower of two siblings, with
\* cpu 0 no faster
C17_Witness ==
  /\ wk.pc = "decide"
  /\ Decide(wk, asmp_param) = "down"
  /\ wk.slow_cpu = 2
  /\ wk.rates[1] > wk.rates[2]
  /\ wk.rates[0] = wk.slow_rate

\* C18: the cpu a scale-up passes to cpu_up is a present cpu that is offline
\* at the decision.
C18_UpTargetPresentOffline ==
  [][ (TickDecides /\ Decide(wk, asmp_param) = "up")
      => UpTarget(cpu_online_mask) \in cpu_present_mask \ cpu_online_mask ]_vars

\* the work queue runs a queued tick, and a running tick reaches its end
SpecTickFair ==
  /\ SpecTick
  /\ WF_vars(TickSampleAny) /\ WF_vars(TickDecide) /\ WF_vars(TickRearm)

\* C19: a failed cpu_up or cpu_down leaves the online set as it was and is
\* not tried again in that tick, and the tick still re-arms: while the
\* controller stays enabled and not suspended a failed tick is followed by
\* another tick, and ticks occur infinitely often.
C19_FailureDoesNotStopLoop ==
  /\ [][ (TickDecides /\ wk'.failed)
         => (cpu_online_mask' = cpu_online_mask /\ wk'.did # "none") ]_vars
  /\ (wk.pc = "rearm" /\ wk.failed) ~> (wk.pc = "decide")
  /\ []<>(wk.pc = "decide")

\* a tick whose hotplug call failed is about to re-arm
C19_Witness == wk.pc = "rearm" /\ wk.failed /\ asmp_enabled /\ ~suspended

\* C20: once early suspend has returned and until late resume is called, no
\* tick is pending or running, whatever enable and disable writes came
\* before; stated for the states where no such write is in progress.
C20_NoTickWhileSuspended ==
  (suspended /\ pm.pc = "idle" /\ sysfs.pc = "idle")
    => (~work_pending /\ wk.pc = "idle")

====
